---- MODULE Spec2Model ----
(***************************************************************************)
(* The simulation core of the endless runner in                            *)
(* client/src/components/GameCanvas.tsx: the mutable game state held in    *)
(* stateRef.current (s), the React state that drives the phase (gameState, *)
(* score, coins), the keyboard handler, the animation-frame loop and the   *)
(* start / restart buttons.  Rendering is left out: it reads s and writes  *)
(* nothing the simulation reads back.                                      *)
(*                                                                         *)
(* Numbers.  JavaScript numbers are IEEE-754 binary64.                     *)
(*  - speed, distance, lastSpawnZ and every z are held exactly, as         *)
(*    integers in units of SPEED_INCREMENT = 0.005 (Scale units per 1.0).  *)
(*  - policeDistance, player.y and player.vy are held as binary64 values   *)
(*    (see Num below): their thresholds (0, 100, -50, -100) are hit or     *)
(*    missed by the rounding of 0.2 and 0.6, which no decimal scaling      *)
(*    reproduces.                                                          *)
(***************************************************************************)
EXTENDS Integers, Sequences, FiniteSets, TLC

\* ------------------------------------------------------------ bounds
\* Frames of the loop that update the state (gameState = 'playing'), and
\* key events delivered to handleKeyDown, in a session of Spec.
MaxTicks == 240
MaxKeys == 1
\* The same for a session of SpecGrounded, whose player never jumps.
MaxLongTicks == 506
MaxMoves == 2
\* The same for a session of SpecSwerve, of one run's length and one more
\* change of lane.
MaxSwerveTicks == 392
MaxSwerves == 3
\* The same for a session of SpecKeys, of the length of a jump and a spawn.
MaxKeyTicks == 70
MaxPresses == 2
\* The frames of a session of SpecMarathon, long enough for the speed to
\* pass the width of the collision band, and the number of its spawns whose
\* draw is off the player's start lane.
MaxMarathonTicks == 40940
MaxAwayDraws == 5401

\* ------------------------------------------------------------ constants
LANE_COUNT == 3
\* Units of 0.005 per 1.0: the scale of speed, distance and z.
Scale == 200
SPEED_INITIAL == 12 * Scale
SPEED_INCREMENT == 1

\* ------------------------------------------------------------ binary64
\* A binary64 value v that is a multiple of 2^-55 with |v| < 512 is held as
\* [t, r] with  v = t/10 + r * (2^-55 / 10):  t is the decimal the source
\* means, in tenths, and r the rounding residue, in units u = 2^-55 / 10.
\* In units of u:  v = t * 2^55 + r,  with |r| far below 2^55.
Num(t, r) == [t |-> t, r |-> r]
Dec(t) == Num(t, 0)

\* 2^n, n in 0 .. 12
Pow2(n) == <<1, 2, 4, 8, 16, 32, 64, 128, 256, 512, 1024, 2048, 4096>>[n + 1]

\* 2^n mod 5
Pow2Mod5(n) == <<1, 2, 4, 3>>[(n % 4) + 1]

\* v < w, v <= w on binary64 values
NumLT(v, w) == v.t < w.t \/ (v.t = w.t /\ v.r < w.r)
NumLE(v, w) == v.t < w.t \/ (v.t = w.t /\ v.r <= w.r)
NumNeg(v) == Num(-v.t, -v.r)
NumAbs(v) == IF NumLT(v, Dec(0)) THEN NumNeg(v) ELSE v

\* The exponent of the unit in the last place of a value of magnitude a, as
\* a power of two over 2^-55: ulp = 2^UlpExp(a) * 2^-55 for a >= 0.25 (below
\* that every multiple of 2^-55 is a binary64 value and nothing is rounded).
\* The binades start at 2.5, 5, 10, 20, ... tenths; at a whole number of
\* tenths the residue decides the side.
Below(a, tenths) == a.t < tenths \/ (a.t = tenths /\ a.r < 0)
UlpExp(a) ==
    IF a.t < 3 THEN 0
    ELSE IF Below(a, 5) THEN 1
    ELSE IF Below(a, 10) THEN 2
    ELSE IF Below(a, 20) THEN 3
    ELSE IF Below(a, 40) THEN 4
    ELSE IF Below(a, 80) THEN 5
    ELSE IF Below(a, 160) THEN 6
    ELSE IF Below(a, 320) THEN 7
    ELSE IF Below(a, 640) THEN 8
    ELSE IF Below(a, 1280) THEN 9
    ELSE IF Below(a, 2560) THEN 10
    ELSE 11

\* (t * 2^55 + r) mod (10 * 2^k), k <= 12:  2^55 t = 2^(k+1) * (2^(54-k) t)
\* and 10 * 2^k = 2^(k+1) * 5
ModUlp(v, k) ==
    (Pow2(k + 1) * ((Pow2Mod5(54 - k) * v.t) % 5) + v.r) % (10 * Pow2(k))

\* Round-to-nearest, ties-to-even, of the exact value v to a multiple of
\* its unit in the last place 10 * 2^k u:  lo is what v has above the
\* multiple below it, and that multiple is an even one when v has the same
\* lo above the multiples of 10 * 2^(k+1) u.
RoundTo(v, k, lo) ==
    IF lo = 0 THEN v
    ELSE IF 2 * lo < 10 * Pow2(k) THEN Num(v.t, v.r - lo)
    ELSE IF 2 * lo > 10 * Pow2(k) THEN Num(v.t, v.r + (10 * Pow2(k) - lo))
    ELSE IF ModUlp(v, k + 1) = lo THEN Num(v.t, v.r - lo)
    ELSE Num(v.t, v.r + lo)
RoundAt(v, k) == IF k = 0 THEN v ELSE RoundTo(v, k, ModUlp(v, k))
RoundNearestEven(v) == RoundAt(v, UlpExp(NumAbs(v)))

\* v + w as JavaScript computes it
NumAdd(v, w) == RoundNearestEven(Num(v.t + w.t, v.r + w.r))
NumSub(v, w) == NumAdd(v, NumNeg(w))

\* The literals of the source as binary64 values.
\* 0.2 = 0x3FC999999999999A = 0.2 + 4u;  0.6 = 0x3FE3333333333333 = 0.6 - 8u
GRAVITY == Num(6, -8)
JUMP_FORCE == Dec(-150)
POLICE_RECOVERY == Num(2, 4)
CRASH_PENALTY == Dec(400)
POLICE_SAFE == Dec(1000)

\* ------------------------------------------------------------ state
VARIABLES
    s,          \* stateRef.current
    gameState,  \* React state gameState, as rendered: the value the key
                \* handler and the loop of the current effects closed over
    score,      \* React state score: the last value given to setScore
    coins,      \* React state coins: the last value given to setCoins
    pending,    \* a setGameState made by the loop and not yet rendered
    frames,     \* callbacks requestAnimationFrame holds and has not run
    h           \* history: counters of the session and of the current run

vars == <<s, gameState, score, coins, pending, frames, h>>

Lanes == 0 .. LANE_COUNT - 1
Types == {"barrier", "train"}

\* The object resetGame stores (and useRef starts with).  particles only
\* feed the drawing and are left out, as is a coin's angle.
InitialState ==
    [ speed |-> SPEED_INITIAL,
      distance |-> 0,
      score |-> 0,
      coins |-> 0,
      player |-> [lane |-> 1, y |-> Dec(0), vy |-> Dec(0),
                  isJumping |-> FALSE, stumbleCooldown |-> 0],
      policeDistance |-> POLICE_SAFE,
      obstacles |-> <<>>,
      items |-> <<>>,
      lastSpawnZ |-> 0,
      gameOver |-> FALSE ]

\* History of the current run (reset with the state) and of the session.
\*   ticks, keys, draws: what the bounds count;
\*   key, took: the key of the last event delivered to handleKeyDown, and
\*     whether the handler changed the state for it;
\*   spawned, crashes, picked: obstacles pushed, penalties applied and coins
\*     that went from active to inactive, in the current run;
\*   atOver: score, coins and policeDistance as they were when the loop set
\*     gameOver, <<>> before that;
\*   runs: resetGame calls that followed a game over.
InitialHistory ==
    [ticks |-> 0, keys |-> 0, draws |-> 0, spawned |-> 0, crashes |-> 0,
     picked |-> 0, atOver |-> <<>>, runs |-> 0, key |-> "none",
     took |-> FALSE]

Init ==
    /\ s = InitialState
    /\ gameState = "start"
    /\ score = 0
    /\ coins = 0
    /\ pending = "none"
    /\ frames = 1
    /\ h = InitialHistory

\* ------------------------------------------------------------ the loop
SPAWN_INTERVAL == 800 * Scale
SPAWN_Z == 2000 * Scale
COIN_SPACING == 150 * Scale
CLEANUP_Z == -200 * Scale
OBSTACLE_NEAR == 50 * Scale
OBSTACLE_FAR == 250 * Scale
COIN_NEAR == 50 * Scale
COIN_FAR == 150 * Scale
SCORE_DIVISOR == 10 * Scale
JUMP_CLEARANCE == Dec(-500)
COIN_REACH == Dec(-1000)
STUMBLE_TICKS == 20

\* A difficulty step that slows a stumbling player down
DifficultyStumbleSlows(st) ==
    LET speed == IF st.player.stumbleCooldown > 0
                 THEN st.speed - SPEED_INCREMENT
                 ELSE st.speed + SPEED_INCREMENT
        distance == st.distance + speed
    IN  [st EXCEPT !.speed = speed, !.distance = distance,
                   !.score = distance \div SCORE_DIVISOR]

\* s.speed += SPEED_INCREMENT; s.distance += s.speed;
\* s.score = Math.floor(s.distance / 10)
Difficulty(st) ==
    LET speed == st.speed + SPEED_INCREMENT
        distance == st.distance + speed
    IN  [st EXCEPT !.speed = speed, !.distance = distance,
                   !.score = distance \div SCORE_DIVISOR]

\* Physics whose landing forgets s.player.y = 0
PhysicsNoClamp(st) ==
    IF ~st.player.isJumping THEN st
    ELSE LET y == NumAdd(st.player.y, st.player.vy)
             vy == NumAdd(st.player.vy, GRAVITY)
         IN  IF NumLE(Dec(0), y)
             THEN [st EXCEPT !.player.y = y, !.player.vy = vy,
                             !.player.isJumping = FALSE]
             ELSE [st EXCEPT !.player.y = y, !.player.vy = vy]

\* Player Physics: position first, then velocity, then the landing clamp.
Physics(st) ==
    IF ~st.player.isJumping THEN st
    ELSE LET y == NumAdd(st.player.y, st.player.vy)
             vy == NumAdd(st.player.vy, GRAVITY)
         IN  IF NumLE(Dec(0), y)
             THEN [st EXCEPT !.player.y = Dec(0), !.player.vy = vy,
                             !.player.isJumping = FALSE]
             ELSE [st EXCEPT !.player.y = y, !.player.vy = vy]

\* A recovery that also counts the stumble down, one a frame
RecoverFromStumble(st) ==
    LET st1 == [st EXCEPT !.player.stumbleCooldown =
                              IF @ > 0 THEN @ - 1 ELSE @]
    IN  IF NumLT(st.policeDistance, POLICE_SAFE)
        THEN [st1 EXCEPT !.policeDistance = NumAdd(@, POLICE_RECOVERY)]
        ELSE st1

\* if (s.policeDistance < 100) s.policeDistance += 0.2
Recover(st) ==
    IF NumLT(st.policeDistance, POLICE_SAFE)
    THEN [st EXCEPT !.policeDistance = NumAdd(@, POLICE_RECOVERY)]
    ELSE st

\* A terminal check with the crash penalty as its threshold
CaughtWithinPenalty(st) == NumLE(st.policeDistance, CRASH_PENALTY)

\* if (s.policeDistance <= 0) { s.gameOver = true; setGameState('gameover') }
Caught(st) == NumLE(st.policeDistance, Dec(0))
TerminalCheck(st) ==
    IF Caught(st) THEN [st EXCEPT !.gameOver = TRUE] ELSE st

\* if (s.distance - s.lastSpawnZ > 800)
SpawnDue(st) == st.distance - st.lastSpawnZ > SPAWN_INTERVAL

\* An obstacle as pushed, with two history fields the source does not
\* hold: hits, the penalties this obstacle has applied, and cleared, whether
\* the "Jumped over barrier - OK" branch was ever taken for it.
NewObstacle(lane, type) ==
    [lane |-> lane, z |-> SPAWN_Z, type |-> type, passed |-> FALSE,
     hits |-> 0, cleared |-> FALSE]

\* A coin as pushed, the k-th of its run of three, with one history field:
\* taken, the times it has been collected.
NewCoin(lane, k) ==
    [lane |-> lane, z |-> SPAWN_Z + k * COIN_SPACING, active |-> TRUE,
     taken |-> 0]

\* Coins put in the lane of the obstacle
CoinLaneOfObstacle(lane) == lane

\* const coinLane = (lane + 1) % 3
CoinLane(lane) == (lane + 1) % 3

\* Spawning, with lane and type the two Math.random() draws
Spawn(st, lane, type) ==
    IF ~SpawnDue(st) THEN st
    ELSE [st EXCEPT
            !.lastSpawnZ = st.distance,
            !.obstacles = Append(@, NewObstacle(lane, type)),
            !.items = @ \o <<NewCoin(CoinLane(lane), 0),
                             NewCoin(CoinLane(lane), 1),
                             NewCoin(CoinLane(lane), 2)>>]

\* Update Objects
Advance(st) ==
    [st EXCEPT
        !.obstacles = [i \in 1 .. Len(@) |-> [@[i] EXCEPT !.z = @ - st.speed]],
        !.items = [i \in 1 .. Len(@) |-> [@[i] EXCEPT !.z = @ - st.speed]]]

\* Cleanup off-screen
OnScreen(e) == e.z > CLEANUP_Z

\* A cleanup that also drops the obstacles crashed into and the coins
\* collected
CleanupSpent(st) ==
    [st EXCEPT !.obstacles = SelectSeq(@, LAMBDA o : o.z > CLEANUP_Z /\ ~o.passed),
               !.items = SelectSeq(@, LAMBDA c : c.z > CLEANUP_Z /\ c.active)]

Cleanup(st) ==
    [st EXCEPT !.obstacles = SelectSeq(@, OnScreen),
               !.items = SelectSeq(@, OnScreen)]

\* !o.passed && o.z < 250 && o.z > 50, and o.lane === s.player.lane
ObstacleNear(o) == ~o.passed /\ o.z < OBSTACLE_FAR /\ o.z > OBSTACLE_NEAR
Meets(st, o) == ObstacleNear(o) /\ o.lane = st.player.lane

\* A clearance test that forgets the obstacle's type
JumpedOverAnyType(st, o) == NumLT(st.player.y, JUMP_CLEARANCE)

\* s.player.y < -50 && o.type === 'barrier'
JumpedOver(st, o) ==
    NumLT(st.player.y, JUMP_CLEARANCE) /\ o.type = "barrier"

\* A crash that forgets o.passed = true
CrashUnmarked(st, i) ==
    [st EXCEPT !.obstacles[i].hits = @ + 1,
               !.policeDistance = NumSub(@, CRASH_PENALTY),
               !.player.stumbleCooldown = STUMBLE_TICKS]

\* A crash that also throws the player back to the initial speed
CrashSlows(st, i) ==
    [st EXCEPT !.obstacles[i].passed = TRUE,
               !.obstacles[i].hits = @ + 1,
               !.policeDistance = NumSub(@, CRASH_PENALTY),
               !.player.stumbleCooldown = STUMBLE_TICKS,
               !.speed = SPEED_INITIAL]

\* CRASH: o.passed = true; s.policeDistance -= 40;
\* s.player.stumbleCooldown = 20
Crash(st, i) ==
    [st EXCEPT !.obstacles[i].passed = TRUE,
               !.obstacles[i].hits = @ + 1,
               !.policeDistance = NumSub(@, CRASH_PENALTY),
               !.player.stumbleCooldown = STUMBLE_TICKS]

\* The body of s.obstacles.forEach for the obstacle at index i
CollideOne(st, i) ==
    LET o == st.obstacles[i]
    IN  IF ~Meets(st, o) THEN st
        ELSE IF JumpedOver(st, o)
        THEN [st EXCEPT !.obstacles[i].cleared = TRUE]
        ELSE Crash(st, i)

RECURSIVE CollideFrom(_, _)
CollideFrom(st, i) ==
    IF i > Len(st.obstacles) THEN st
    ELSE CollideFrom(CollideOne(st, i), i + 1)

\* Collision Detection: s.obstacles.forEach(...)
Collide(st) == CollideFrom(st, 1)

\* c.active && c.z < 150 && c.z > 50 && c.lane === s.player.lane, and
\* s.player.y > -100
Collects(st, c) ==
    /\ c.active /\ c.z < COIN_FAR /\ c.z > COIN_NEAR
    /\ c.lane = st.player.lane
    /\ NumLT(COIN_REACH, st.player.y)

\* A collection that forgets c.active = false
CollectOneStillActive(st, i) ==
    IF Collects(st, st.items[i])
    THEN [st EXCEPT !.items[i].taken = @ + 1, !.coins = @ + 1]
    ELSE st

\* The body of s.items.forEach for the coin at index i
CollectOne(st, i) ==
    IF Collects(st, st.items[i])
    THEN [st EXCEPT !.items[i].active = FALSE, !.items[i].taken = @ + 1,
                    !.coins = @ + 1]
    ELSE st

RECURSIVE CollectFrom(_, _)
CollectFrom(st, i) ==
    IF i > Len(st.items) THEN st
    ELSE CollectFrom(CollectOne(st, i), i + 1)

\* s.items.forEach(...)
Collect(st) == CollectFrom(st, 1)

\* The steps of one frame before the terminal check, and after it
BeforeCheck(st) == Recover(Physics(Difficulty(st)))
AfterCheck(st, lane, type) ==
    Collect(Collide(Cleanup(Advance(Spawn(st, lane, type)))))

\* "Update State": the body of if (gameState === 'playing') in loop
Update(st, lane, type) == AfterCheck(TerminalCheck(BeforeCheck(st)), lane, type)

RECURSIVE SumHits(_)
SumHits(q) == IF q = <<>> THEN 0 ELSE Head(q).hits + SumHits(Tail(q))

RECURSIVE CountInactive(_)
CountInactive(q) ==
    IF q = <<>> THEN 0
    ELSE (IF Head(q).active THEN 0 ELSE 1) + CountInactive(Tail(q))

\* The history after a frame that went through mid (the state after the
\* terminal check) and pre (the state before collision detection, whose
\* pools hold the entities of st1 in the same order) and ended in st1.
Recorded(hist, mid, pre, st1) ==
    [hist EXCEPT
        !.ticks = @ + 1,
        !.draws = IF SpawnDue(mid) THEN @ + 1 ELSE @,
        !.spawned = IF SpawnDue(mid) THEN @ + 1 ELSE @,
        !.crashes = @ + SumHits(st1.obstacles) - SumHits(pre.obstacles),
        !.picked = @ + CountInactive(st1.items) - CountInactive(pre.items),
        !.atOver = IF mid.gameOver
                   THEN <<mid.score, mid.coins, mid.policeDistance>>
                   ELSE @]

\* The two Math.random() draws of a spawn, floor(random * 3) and
\* random > 0.7, as a lane and a type.  A session explores every draw of
\* its first spawn (FirstFree), or none (Fixed); the other spawns draw the
\* player's start lane and a barrier.
AllDraws == Lanes \X Types
Fixed == {<<1, "barrier">>}
FirstFree == IF h.draws = 0 THEN AllDraws ELSE Fixed
\* A session whose first spawns all draw lane 2 and a barrier, and whose
\* later spawns explore every draw
Away == {<<2, "barrier">>}
LateFree == IF h.draws < MaxAwayDraws THEN Away ELSE AllDraws

\* One call of loop.
\*  - gameOver: return, and no frame is requested;
\*  - gameState 'playing': update the state, setScore(s.score) and
\*    setCoins(s.coins) with the values of line 172-173, and request a frame;
\*  - otherwise: draw, and request a frame.
LoopOver ==
    /\ frames > 0
    /\ s.gameOver
    /\ frames' = frames - 1
    /\ UNCHANGED <<s, gameState, score, coins, pending, h>>

LoopPlaying(maxTicks, draws) ==
    /\ frames > 0
    /\ ~s.gameOver
    /\ gameState = "playing"
    /\ h.ticks < maxTicks
    /\ LET mid == TerminalCheck(BeforeCheck(s))
       IN  /\ \E d \in (IF SpawnDue(mid) THEN draws ELSE Fixed) :
                LET pre == Cleanup(Advance(Spawn(mid, d[1], d[2])))
                    st1 == Collect(Collide(pre))
                IN  /\ s' = st1
                    /\ h' = Recorded(h, mid, pre, st1)
           /\ score' = mid.score
           /\ coins' = s.coins
           /\ pending' = IF mid.gameOver THEN "gameover" ELSE pending
    /\ frames' = (frames - 1) + 1
    /\ UNCHANGED gameState

LoopIdle ==
    /\ frames > 0
    /\ ~s.gameOver
    /\ gameState # "playing"
    /\ frames' = (frames - 1) + 1
    /\ UNCHANGED <<s, gameState, score, coins, pending, h>>

\* ------------------------------------------------------------ React
\* The effects of a render with gameState = g: the loop effect's cleanup
\* cancels the frame its loop last requested, resetGame runs when g is
\* 'start', and a frame is requested for the new loop.
\* A reset that keeps the pursuit meter of the run before
ResetGameKeepsMeter(g) ==
    /\ s' = IF g = "start"
            THEN [InitialState EXCEPT !.policeDistance = s.policeDistance]
            ELSE s
    /\ score' = IF g = "start" THEN 0 ELSE score
    /\ coins' = IF g = "start" THEN 0 ELSE coins
    /\ h' = IF g = "start"
            THEN [h EXCEPT !.spawned = 0, !.crashes = 0, !.picked = 0,
                           !.atOver = <<>>,
                           !.runs = IF s.gameOver THEN @ + 1 ELSE @]
            ELSE h

ResetGame(g) ==
    /\ s' = IF g = "start" THEN InitialState ELSE s
    /\ score' = IF g = "start" THEN 0 ELSE score
    /\ coins' = IF g = "start" THEN 0 ELSE coins
    /\ h' = IF g = "start"
            THEN [h EXCEPT !.spawned = 0, !.crashes = 0, !.picked = 0,
                           !.atOver = <<>>,
                           !.runs = IF s.gameOver THEN @ + 1 ELSE @]
            ELSE h

\* The effects of a render whose cleanup cancels nothing
RenderUncancelled(g) ==
    /\ gameState' = g
    /\ pending' = "none"
    /\ frames' = frames + 1
    /\ ResetGame(g)

Render(g) ==
    /\ gameState' = g
    /\ pending' = "none"
    /\ frames' = 0 + 1
    /\ ResetGame(g)

\* onClick={() => setGameState('playing')} of TAP TO START
ClickStart ==
    /\ gameState = "start"
    /\ Render("playing")

\* The render React makes for the loop's setGameState('gameover')
Commit ==
    /\ pending # "none"
    /\ Render(pending)

\* onRestart={() => setGameState('start')} of Play Again
ClickRestart ==
    /\ gameState = "gameover"
    /\ Render("start")

\* ------------------------------------------------------------ keys
\* A handler whose moves forget the edge lanes
HandledPastEdge(st, g, key) ==
    IF g # "playing" THEN st
    ELSE CASE key = "ArrowLeft" -> [st EXCEPT !.player.lane = @ - 1]
           [] key = "ArrowRight" -> [st EXCEPT !.player.lane = @ + 1]
           [] key = "ArrowUp" ->
                IF ~st.player.isJumping
                THEN [st EXCEPT !.player.vy = JUMP_FORCE,
                                !.player.isJumping = TRUE]
                ELSE st

\* A handler whose jump forgets the isJumping test
HandledJumpAnyTime(st, g, key) ==
    IF g # "playing" THEN st
    ELSE CASE key = "ArrowLeft" ->
                IF st.player.lane > 0
                THEN [st EXCEPT !.player.lane = @ - 1] ELSE st
           [] key = "ArrowRight" ->
                IF st.player.lane < LANE_COUNT - 1
                THEN [st EXCEPT !.player.lane = @ + 1] ELSE st
           [] key = "ArrowUp" ->
                [st EXCEPT !.player.vy = JUMP_FORCE,
                           !.player.isJumping = TRUE]

\* The state after handleKeyDown, registered by a render with gameState
\* g, has handled key
Handled(st, g, key) ==
    IF g # "playing" THEN st
    ELSE CASE key = "ArrowLeft" ->
                IF st.player.lane > 0
                THEN [st EXCEPT !.player.lane = @ - 1] ELSE st
           [] key = "ArrowRight" ->
                IF st.player.lane < LANE_COUNT - 1
                THEN [st EXCEPT !.player.lane = @ + 1] ELSE st
           [] key = "ArrowUp" ->
                IF ~st.player.isJumping
                THEN [st EXCEPT !.player.vy = JUMP_FORCE,
                                !.player.isJumping = TRUE]
                ELSE st

\* handleKeyDown, as registered by the effect of the last render
KeyDown(key, maxKeys) ==
    /\ h.keys < maxKeys
    /\ s' = Handled(s, gameState, key)
    /\ h' = [h EXCEPT !.keys = @ + 1, !.key = key,
                      !.took = (Handled(s, gameState, key) # s)]
    /\ UNCHANGED <<gameState, score, coins, pending, frames>>

\* A session too short for a run to end: no frame finds gameOver set, and
\* the page shows neither the overlay nor its restart button.
Next ==
    \/ ClickStart
    \/ LoopIdle
    \/ LoopPlaying(MaxTicks, FirstFree)
    \/ KeyDown("ArrowLeft", MaxKeys)
    \/ KeyDown("ArrowRight", MaxKeys)
    \/ KeyDown("ArrowUp", MaxKeys)

Spec == Init /\ [][Next]_vars

\* Longer sessions, runs ending and restarting, of a player who only changes
\* lanes, every obstacle in the start lane
NextGrounded ==
    \/ ClickStart
    \/ LoopIdle
    \/ LoopPlaying(MaxLongTicks, Fixed)
    \/ LoopOver
    \/ Commit
    \/ ClickRestart
    \/ KeyDown("ArrowLeft", MaxMoves)
    \/ KeyDown("ArrowRight", MaxMoves)

SpecGrounded == Init /\ [][NextGrounded]_vars

\* The same player through the first run that can end, with one more change
\* of lane
NextSwerve ==
    \/ ClickStart
    \/ LoopIdle
    \/ LoopPlaying(MaxSwerveTicks, Fixed)
    \/ LoopOver
    \/ Commit
    \/ ClickRestart
    \/ KeyDown("ArrowLeft", MaxSwerves)
    \/ KeyDown("ArrowRight", MaxSwerves)

SpecSwerve == Init /\ [][NextSwerve]_vars

\* The start of a run, through its first spawn, with one more key than Spec
NextKeys ==
    \/ ClickStart
    \/ LoopIdle
    \/ LoopPlaying(MaxKeyTicks, FirstFree)
    \/ KeyDown("ArrowLeft", MaxPresses)
    \/ KeyDown("ArrowRight", MaxPresses)
    \/ KeyDown("ArrowUp", MaxPresses)

SpecKeys == Init /\ [][NextKeys]_vars

\* One run of eleven minutes at 60 frames a second with no key pressed: the
\* player stays on the ground in lane 1, the obstacles come in lane 2 until
\* the speed is over 200 and in any lane from then on
NextMarathon ==
    \/ ClickStart
    \/ LoopIdle
    \/ LoopPlaying(MaxMarathonTicks, LateFree)

SpecMarathon == Init /\ [][NextMarathon]_vars

\* ---------------------------------------------------------------------
\* The pursuit meter and the end of a run

\* A step that is one updating frame of the loop
Ticked == h'.ticks = h.ticks + 1

\* C1: the pursuit meter is never below 0: in every state of a run
\* 0 <= policeDistance, a crash that would take it under 0 leaving it at 0.
C1_MeterNeverNegative == NumLE(Dec(0), s.policeDistance)

\* C2: a frame in which a crash brings the meter to 0 or below ends the run
\* by the end of that same frame.
C2_CrashToZeroEndsRun ==
    [][(Ticked /\ h'.crashes > h.crashes /\ NumLE(s'.policeDistance, Dec(0)))
          => s'.gameOver]_vars

\* C3: a run whose meter is at or below 0 at the end of a frame does not go
\* on: the next frame of the loop ends it, rather than carry the run on.
C3_RunEndsOnceMeterAtZero ==
    [][(Ticked /\ NumLE(s.policeDistance, Dec(0))) => s'.gameOver]_vars

\* C4: from the moment gameOver is set until the restart, score, coins and
\* policeDistance keep the values they had at that moment.
C4_FrozenOnceOver ==
    s.gameOver => h.atOver = <<s.score, s.coins, s.policeDistance>>

\* ---------------------------------------------------------------------
\* Obstacles

\* Obstacle j after a step is obstacle i before it, or coin j coin i: the
\* entities of a pool never share a depth, and a frame moves each by the
\* distance it adds.
SameEntity(e, f) == f.z = e.z - (s'.distance - s.distance)

\* C5: a barrier in the band and in the player's lane that the player is over
\* with y < -50 is resolved by that frame (passed is true), without a penalty:
\* every obstacle for which the jumped-over branch was taken is resolved.
C5_JumpedBarrierResolved ==
    \A i \in 1 .. Len(s.obstacles) :
        s.obstacles[i].cleared => s.obstacles[i].passed

\* C6: an obstacle the player has passed by a jump never applies a penalty
\* in a later frame, whatever the player does while it is still in the band.
C6_JumpedBarrierNeverCrashes ==
    \A i \in 1 .. Len(s.obstacles) :
        s.obstacles[i].cleared => s.obstacles[i].hits = 0

\* C7: an obstacle applies the crash penalty at most once in its lifetime,
\* its passed flag never goes back from true to false, and the penalties of
\* a run are at most one per obstacle spawned.
C7_OnePenaltyPerObstacle ==
    /\ [](/\ \A i \in 1 .. Len(s.obstacles) :
                /\ s.obstacles[i].hits <= 1
                /\ s.obstacles[i].passed <=> s.obstacles[i].hits = 1
          /\ h.crashes <= h.spawned)
    /\ [][\A i \in 1 .. Len(s.obstacles), j \in 1 .. Len(s'.obstacles) :
            (SameEntity(s.obstacles[i], s'.obstacles[j]) /\ s.obstacles[i].passed)
                => s'.obstacles[j].passed]_vars

\* An obstacle crashed into on entering the band has left it, the player in
\* its lane all the while
C7_Witness ==
    /\ h.keys = 0
    /\ \E i \in 1 .. Len(s.obstacles) :
        /\ s.obstacles[i].hits = 1
        /\ s.obstacles[i].lane = s.player.lane
        /\ s.obstacles[i].z < OBSTACLE_NEAR

\* C8: a frame that finds a train in the band and in the player's lane
\* leaves it resolved with its penalty applied, whatever the player's y and
\* isJumping.
C8_TrainAlwaysCrashes ==
    [][Ticked =>
        \A j \in 1 .. Len(s'.obstacles) :
            (/\ s'.obstacles[j].type = "train"
             /\ s'.obstacles[j].z < OBSTACLE_FAR
             /\ s'.obstacles[j].z > OBSTACLE_NEAR
             /\ s'.obstacles[j].lane = s'.player.lane)
                => s'.obstacles[j].passed /\ s'.obstacles[j].hits = 1]_vars

\* The frame that brought a train into the band crashed the player into it
\* while above the clearance height
C8_Witness ==
    /\ s.player.isJumping
    /\ NumLT(s.player.y, JUMP_CLEARANCE)
    /\ \E i \in 1 .. Len(s.obstacles) :
        /\ s.obstacles[i].type = "train"
        /\ s.obstacles[i].z < OBSTACLE_FAR
        /\ s.obstacles[i].z + s.speed >= OBSTACLE_FAR
        /\ s.obstacles[i].hits = 1
        /\ s.policeDistance = NumSub(POLICE_SAFE, CRASH_PENALTY)

\* ---------------------------------------------------------------------
\* Coins

\* C9: a coin is collected at most once and never becomes active again;
\* coins is the number of coins collected so far in the run; and a frame
\* that finds a coin in its band, in the player's lane, the player below the
\* reach height, leaves it collected, so three such coins add exactly 3.
C9_CoinsCountCollected ==
    /\ [](/\ \A i \in 1 .. Len(s.items) :
                /\ s.items[i].taken <= 1
                /\ s.items[i].active <=> s.items[i].taken = 0
          /\ s.coins = h.picked)
    /\ [][/\ \A i \in 1 .. Len(s.items), j \in 1 .. Len(s'.items) :
                (SameEntity(s.items[i], s'.items[j]) /\ ~s.items[i].active)
                    => ~s'.items[j].active
          /\ Ticked =>
                \A j \in 1 .. Len(s'.items) :
                    (/\ s'.items[j].z < COIN_FAR
                     /\ s'.items[j].z > COIN_NEAR
                     /\ s'.items[j].lane = s'.player.lane
                     /\ NumLT(COIN_REACH, s'.player.y))
                        => ~s'.items[j].active]_vars

\* The player has stayed in the lane of the first three coins, on the
\* ground, and has all three
C9_Witness ==
    /\ h.keys = 0
    /\ h.picked = 3
    /\ s.coins = 3

\* ---------------------------------------------------------------------
\* Phases

\* The phase of a run: Ended once gameOver is set, Running while the loop
\* updates the state, Idle before
Phase ==
    IF s.gameOver THEN "Ended"
    ELSE IF gameState = "playing" THEN "Running" ELSE "Idle"

\* C10: the phase changes only from Idle to Running on the start button,
\* from Running to Ended in a frame whose terminal check saw
\* policeDistance <= 0, and from Ended to Idle on the restart button.
C10_PhaseCycle ==
    [][\/ Phase' = Phase
       \/ /\ Phase = "Idle" /\ Phase' = "Running"
          /\ gameState = "start" /\ gameState' = "playing"
       \/ /\ Phase = "Running" /\ Phase' = "Ended"
          /\ Ticked
          /\ NumLE(h'.atOver[3], Dec(0))
       \/ /\ Phase = "Ended" /\ Phase' = "Idle"
          /\ gameState = "gameover" /\ gameState' = "start"]_vars

\* A second run is under way: the first was started, ended and restarted
C10_Witness ==
    /\ h.runs = 1
    /\ Phase = "Running"
    /\ h.spawned > 0

\* ---------------------------------------------------------------------
\* Reset, final values and keys

\* C11: every time the phase enters Running, in the first run and in every
\* run after a restart, the state holds the initial constants: speed 12,
\* distance 0, score 0, coins 0, lane 1, y 0, vy 0, not jumping, stumble 0,
\* policeDistance 100, lastSpawnZ 0, empty pools, gameOver false.
C11_FreshOnStart ==
    [][(Phase # "Running" /\ Phase' = "Running") =>
        /\ s'.speed = 12 * Scale
        /\ s'.distance = 0
        /\ s'.score = 0
        /\ s'.coins = 0
        /\ s'.player = [lane |-> 1, y |-> Dec(0), vy |-> Dec(0),
                        isJumping |-> FALSE, stumbleCooldown |-> 0]
        /\ s'.policeDistance = Dec(1000)
        /\ s'.lastSpawnZ = 0
        /\ s'.obstacles = <<>>
        /\ s'.items = <<>>
        /\ s'.gameOver = FALSE]_vars

\* A run that follows a game over and a restart has entered Running and
\* has not made a frame yet
C11_Witness ==
    /\ h.runs = 1
    /\ h.ticks > 0
    /\ Phase = "Running"
    /\ s.distance = 0
    /\ s.player.stumbleCooldown = 0

\* C12: the score and coins the game-over overlay shows and submits are the
\* final score and coins of the run in stateRef, the coins collected in the
\* last frame of the run included.
C12_OverlayShowsFinal ==
    gameState = "gameover" => (score = s.score /\ coins = s.coins)

\* A step that delivers one key event to handleKeyDown
KeyEvent == h'.keys = h.keys + 1

\* C13: a key event delivered while the phase is not Running (Idle, or Ended,
\* the time between the frame that ends the run and the next render included)
\* leaves every field of the player unchanged.
C13_KeysIgnoredUnlessRunning ==
    [][(KeyEvent /\ Phase # "Running") => s'.player = s.player]_vars

\* C14: a jump event is accepted only when the player is not jumping, and
\* then sets vy to JUMP_FORCE and isJumping to true; a jump event while the
\* player is jumping leaves vy, y and isJumping as they were.
C14_NoDoubleJump ==
    [][(KeyEvent /\ h'.key = "ArrowUp") =>
        /\ s.player.isJumping => s'.player = s.player
        /\ s'.player # s.player =>
            s'.player = [s.player EXCEPT !.vy = Dec(-150), !.isJumping = TRUE]
        /\ (Phase = "Running" /\ ~s.player.isJumping) =>
            s'.player.isJumping]_vars

\* The last key was a jump that the handler of a run let pass while the
\* player was in the air
C14_Witness ==
    /\ gameState = "playing"
    /\ h.key = "ArrowUp"
    /\ ~h.took
    /\ s.player.isJumping
    /\ NumLT(s.player.y, Dec(0))

\* C15: the lane of the player, of every obstacle and of every coin in the
\* pools is 0, 1 or 2, whatever the moves and the spawns; a move at an edge
\* lane changes nothing.
C15_LanesInRange ==
    /\ s.player.lane \in {0, 1, 2}
    /\ \A i \in 1 .. Len(s.obstacles) : s.obstacles[i].lane \in {0, 1, 2}
    /\ \A i \in 1 .. Len(s.items) : s.items[i].lane \in {0, 1, 2}

\* The last key was a move to the left that the handler of a run let pass
\* with the player in lane 0, and the pools hold an obstacle of lane 2 with
\* its coins in lane 0
C15_Witness ==
    /\ gameState = "playing"
    /\ h.key = "ArrowLeft"
    /\ ~h.took
    /\ s.player.lane = 0
    /\ Len(s.obstacles) = 1
    /\ s.obstacles[1].lane = 2
    /\ Len(s.items) = 3
    /\ s.items[3].lane = 0

\* ---------------------------------------------------------------------
\* Speed, meter and physics

\* C16: from one frame of a run to the next neither distance nor speed
\* decreases, and speed is never below SPEED_INITIAL = 12, whatever the
\* inputs, crashes and stumbles.
C16_DistanceAndSpeedGrow ==
    /\ [](s.speed >= 12 * Scale)
    /\ [][Ticked => (s'.distance >= s.distance /\ s'.speed >= s.speed)]_vars

\* A run has gone on for frames after a crash, the player stumbling and
\* then jumping
C16_Witness ==
    /\ h.crashes = 1
    /\ s.player.stumbleCooldown = 20
    /\ h.key = "ArrowUp"
    /\ h.took
    /\ NumLT(s.player.y, Dec(0))
    /\ s.speed > 12 * Scale + 220

\* C17: the pursuit meter never exceeds 100: the recovery of 0.2 a frame is
\* applied only below 100 and never carries the meter above 100.
C17_MeterAtMostSafe == NumLE(s.policeDistance, Dec(1000))

\* C18: a frame of a run with the player in the air integrates the velocity
\* first and the position second: vy' = vy + GRAVITY and, before the landing
\* clamp, y' = y + vy'; the first frame after a jump moves the player by
\* JUMP_FORCE + GRAVITY.
C18_VelocityBeforePosition ==
    [][(Ticked /\ s.player.isJumping) =>
        /\ s'.player.vy = NumAdd(s.player.vy, Num(6, -8))
        /\ s'.player.isJumping =>
            s'.player.y = NumAdd(s.player.y, s'.player.vy)]_vars

\* C19: y is never above 0, and is 0 whenever the player is not jumping: a
\* frame that would carry y to 0 or above sets it to 0 and clears isJumping,
\* and no other step changes y.
C19_NeverBelowGround ==
    /\ [](/\ NumLE(s.player.y, Dec(0))
          /\ ~s.player.isJumping => s.player.y = Dec(0))
    /\ [][IF Ticked /\ s.player.isJumping
          THEN NumLE(Dec(0), NumAdd(s.player.y, s.player.vy)) =>
                  (s'.player.y = Dec(0) /\ ~s'.player.isJumping)
          ELSE s'.player.y = s.player.y]_vars

\* The player has jumped and landed: on the ground again, with the downward
\* velocity of the landing
C19_Witness ==
    /\ h.key = "ArrowUp"
    /\ h.took
    /\ ~s.player.isJumping
    /\ s.player.y = Dec(0)
    /\ NumLT(Dec(0), s.player.vy)

\* ---------------------------------------------------------------------
\* Spawning

\* The entities of the pool a step leaves as p that it pushed: those that
\* are none of the entities of q, the pool before the step.
Pushed(q, p) ==
    {j \in 1 .. Len(p) : \A i \in 1 .. Len(q) : ~SameEntity(q[i], p[j])}

\* C20: a frame of a run spawns exactly when distance - lastSpawnZ > 800;
\* the spawn sets lastSpawnZ to the distance and adds one unresolved
\* obstacle and three active coins, the coins in one lane, (obstacle lane
\* + 1) mod 3, which is never the lane of the obstacle.
C20_SpawnRule ==
    [][Ticked =>
        IF s'.distance - s.lastSpawnZ > 800 * Scale
        THEN /\ s'.lastSpawnZ = s'.distance
             /\ Cardinality(Pushed(s.obstacles, s'.obstacles)) = 1
             /\ Cardinality(Pushed(s.items, s'.items)) = 3
             /\ \A j \in Pushed(s.obstacles, s'.obstacles) :
                    /\ ~s'.obstacles[j].passed
                    /\ s'.obstacles[j].z = 2000 * Scale - s'.speed
                    /\ \A k \in Pushed(s.items, s'.items) :
                        /\ s'.items[k].active
                        /\ s'.items[k].lane = (s'.obstacles[j].lane + 1) % 3
                        /\ s'.items[k].lane # s'.obstacles[j].lane
        ELSE /\ s'.lastSpawnZ = s.lastSpawnZ
             /\ Pushed(s.obstacles, s'.obstacles) = {}
             /\ Pushed(s.items, s'.items) = {}]_vars

\* The frame before spawned an obstacle in lane 2 with its three coins in
\* lane 0
C20_Witness ==
    /\ s.lastSpawnZ = s.distance
    /\ Len(s.obstacles) = 1
    /\ s.obstacles[1].lane = 2
    /\ s.obstacles[1].z = 2000 * Scale - s.speed
    /\ Len(s.items) = 3
    /\ \A k \in 1 .. 3 : s.items[k].lane = 0 /\ s.items[k].active

\* ---------------------------------------------------------------------
\* Culling

\* The entities of pool q that a step leaves in no form in pool p although
\* their depth after the step is above the cleanup depth
Lost(q, p) ==
    {i \in 1 .. Len(q) :
        /\ q[i].z - (s'.distance - s.distance) > -200 * Scale
        /\ \A j \in 1 .. Len(p) : ~SameEntity(q[i], p[j])}

\* C21: no pool ever holds an entity of depth <= -200; within a run an
\* obstacle or coin is never removed while its depth is above -200, crashed
\* into or collected or not; and the pools stay bounded: at most 3 obstacles
\* and 12 coins.
C21_CulledOnlyOffScreen ==
    /\ [](/\ \A i \in 1 .. Len(s.obstacles) : s.obstacles[i].z > -200 * Scale
          /\ \A i \in 1 .. Len(s.items) : s.items[i].z > -200 * Scale
          /\ Len(s.obstacles) <= 3
          /\ Len(s.items) <= 12)
    /\ [][h'.runs = h.runs =>
            /\ Lost(s.obstacles, s'.obstacles) = {}
            /\ Lost(s.items, s'.items) = {}]_vars

\* Obstacles have been culled, and the pools still hold, behind the player,
\* an obstacle crashed into and a coin collected
C21_Witness ==
    /\ h.spawned > Len(s.obstacles)
    /\ \E i \in 1 .. Len(s.obstacles) :
            s.obstacles[i].passed /\ s.obstacles[i].z < 0
    /\ \E i \in 1 .. Len(s.items) :
            ~s.items[i].active /\ s.items[i].z < 0

\* ---------------------------------------------------------------------
\* Noninterference

\* C22: after n frames of a run the speed is 12 + 0.005 n, the distance is
\* 12 n + 0.005 n (n + 1) / 2 and the score is the distance over 10, rounded
\* down, whatever the keys pressed, the lanes and types drawn, the crashes
\* and the coins collected.  (The session has a single run, so the frames of
\* the run are the frames of the session.)
C22_PaceDependsOnlyOnTicks ==
    /\ s.speed = 12 * Scale + h.ticks
    /\ 2 * s.distance = 2 * 12 * Scale * h.ticks + h.ticks * (h.ticks + 1)
    /\ s.score = s.distance \div (10 * Scale)

\* A run in which a key was taken, a coin collected and an obstacle crashed
\* into
C22_Witness ==
    /\ h.ticks > 200
    /\ h.took
    /\ h.picked >= 1
    /\ h.crashes = 1

\* ---------------------------------------------------------------------
\* Stumble

\* C23: stumbleCooldown is 0 or 20; it is other than 0 exactly when the
\* run has had a crash; and no frame of a run lowers it: once 20 it stays
\* 20 until a restart resets the state.
C23_StumbleLatches ==
    /\ [](/\ s.player.stumbleCooldown \in {0, 20}
          /\ s.player.stumbleCooldown # 0 <=> h.crashes >= 1)
    /\ [][h'.runs = h.runs =>
            s'.player.stumbleCooldown >= s.player.stumbleCooldown]_vars

\* Frame 300 or later of a run, its one crash more than 20 frames ago and
\* the obstacle crashed into culled: the player is still stumbling
C23_Witness ==
    /\ s.speed >= 12 * Scale + 300
    /\ h.crashes = 1
    /\ \A i \in 1 .. Len(s.obstacles) : s.obstacles[i].hits = 0
    /\ s.player.stumbleCooldown = 20

\* ---------------------------------------------------------------------
\* Obstacles at speed

\* C24: no obstacle passes the player unevaluated, however long the run: a
\* frame never carries an obstacle from the far edge of the band or beyond
\* (depth >= 250) to the near edge or beyond (depth <= 50), and an
\* obstacle in the lane of a player who has pressed no key, once at depth
\* <= 50, has given its crash penalty.
C24_NoObstacleUnevaluated ==
    /\ [](h.keys = 0 =>
            \A i \in 1 .. Len(s.obstacles) :
                (/\ s.obstacles[i].lane = s.player.lane
                 /\ s.obstacles[i].z <= 50 * Scale)
                    => s.obstacles[i].hits >= 1)
    /\ [][Ticked =>
            \A i \in 1 .. Len(s.obstacles) :
                s.obstacles[i].z >= 250 * Scale
                    => s.obstacles[i].z - (s'.distance - s.distance)
                           > 50 * Scale]_vars

\* ---------------------------------------------------------------------
\* The animation-frame loop

\* C25: whatever the changes of phase (mount, start, game over, restart),
\* at most one call of loop is requested at any time: the loop of the
\* phase before never runs beside the loop of the new phase.
C25_OneLoop == frames <= 1

\* A second run under way, after a game over and a restart, with its loop
\* requested
C25_Witness ==
    /\ h.runs >= 1
    /\ gameState = "playing"
    /\ s.speed > 12 * Scale
    /\ frames = 1

====
